---- MODULE Spec2Model ----
(***************************************************************************)
(* Video interval measurement pipeline of segmentation_web_app:            *)
(*   - SlidingStabilityFilter   (src/app/utils/stability_filter.py)        *)
(*   - per-frame post-processing and the per-frame body of flush_batch     *)
(*     (src/app/processing/video_processor.py)                             *)
(*                                                                         *)
(* Numbers.  The Python code works on floats.  Every float quantity q of   *)
(* the filter (values, medians, MADs, Welford mean and M2, baseline,       *)
(* last_valid) is held here as the integer q * Unit, where Unit is a       *)
(* multiple of 4 and of every possible warm-up count, so that every        *)
(* halving (median, MAD) and every division by warm_n (Welford) is exact.  *)
(* Comparisons against the float thresholds are cross-multiplied.          *)
(***************************************************************************)
EXTENDS Integers, Sequences, FiniteSets, TLC

(***************************************************************************)
(* Bounds of the model.                                                    *)
(***************************************************************************)
MaxFrames == 4          \* frames post-processed in one interval
MaxInitWindow == 4      \* cfg.init_window ranges over 1..MaxInitWindow
MaxWinSize == 4         \* cfg.win_size ranges over {MinWin - 1, MaxWinSize}
MaxConsecBadStop == 2   \* cfg.consec_bad_stop ranges over 1..MaxConsecBadStop
TotalFrames == 3        \* CAP_PROP_FRAME_COUNT of the video
MaxIntervals == 2       \* intervals handed to one process_video call

(***************************************************************************)
(* Program constants (StabilityConfig as shipped, as exact fractions).     *)
(***************************************************************************)
MinWin == 3             \* self.win = max(3, int(cfg.win_size))
InitCvMaxNum == 2       \* init_cv_max = 0.08 = 2/25
InitCvMaxDen == 25
ZThreshNum == 7         \* z_thresh = 3.5 = 7/2
ZThreshDen == 2
RelTolNum == 1          \* rel_tol = 0.2 = 1/5
RelTolDen == 5
RocAbsMax == 3          \* roc_abs_max = 3.0
MadScaleNum == 7413     \* 1.4826 = 7413/5000
MadScaleDen == 5000
SigmaEpsDen == 1000000  \* 1e-6 = 1/1000000
PixelSizeMm == 1        \* pixel_size_mm handed to the processor (caller's choice)

(***************************************************************************)
(* Optional[T]: None is the empty sequence, a present value x is <<x>>.    *)
(***************************************************************************)
None == <<>>
Some(x) == <<x>>
Get(o) == o[1]

Abs(a) == IF a < 0 THEN -a ELSE a
Max2(a, b) == IF a >= b THEN a ELSE b
Min2(a, b) == IF a <= b THEN a ELSE b

RECURSIVE SumSeq(_)
SumSeq(q) == IF q = <<>> THEN 0 ELSE Head(q) + SumSeq(Tail(q))

RECURSIVE GCD(_, _)
GCD(a, b) == IF b = 0 THEN a ELSE GCD(b, a % b)

RECURSIVE LCMUpTo(_)
LCMUpTo(n) == IF n <= 1 THEN 1 ELSE LET l == LCMUpTo(n - 1) IN (l * n) \div GCD(l, n)

\* fixed-point unit: a multiple of 4, of every warm-up count 1..MaxFrames and
\* of every number of frames of an interval
Unit == LCMUpTo(Max2(Max2(MaxFrames, TotalFrames), 4))

\* pixel heights of the lines a frame can yield
Heights == {0, 9, 10, 11, 13}

VARIABLES
    stab,          \* Optional[SlidingStabilityFilter] of the interval
    frame_means,   \* List[Tuple[int, float]] of the interval
    pipe_frames,   \* frames written to the FFmpegPipe, in write order
    n_done,        \* number of frames post-processed so far
    pp_ret,        \* the last _frame_postprocess call: its result and return
    prev_stab,     \* history: stab at entry to the last _frame_postprocess
    calls,         \* history: every add call so far, [value, ret]
    last_add,      \* history: whether the last frame called add
    pc,            \* position in VideoIntervalProcessor.process_video
    self,          \* the processor: batch_size, save_video, stability_filter_config
    src_fps,       \* cap.get(CAP_PROP_FPS)
    target_fps,    \* argument target_fps
    n_intervals,   \* len(intervals) of the argument intervals
    interval,      \* (start_s, end_s) of iteration k of the for loop
    k_interval,    \* k: 1-based index of the interval being processed
    n_stats,       \* len(stats)
    stat_k,        \* Optional[IntervalStat]: the entry of stats stored last
    sampled,       \* sampled indices of the interval
    sampled_iter,  \* what iter(sampled) has not yet yielded
    next_needed,   \* Optional[int]
    cur_f,         \* cur_f
    cap_pos,       \* position of the VideoCapture: the next frame read
    batch_frames,  \* pending frames, each [src, res]
    batch_indices, \* pending frame indices
    pipe,          \* Optional[FFmpegPipe]: [proc, frames]
    closes,        \* history: close calls on the pipe of the interval
    reads,         \* history: cap.read calls of the interval
    done,          \* history: frames post-processed in the interval
    appended,      \* history: source index of every frame put in a batch
    ended,         \* history: how the interval finalized last ended
    sampler_call,  \* a _choose_sampled_indices call: arguments and returns
    lines_call,    \* an extract_vertical_lines_from_mask call
    smoothing_call, \* a _filter_with_smoothing call
    ff,            \* the FFmpegPipe object: [proc, W, H]
    os_pipe,       \* the pipe to the stdin of ffmpeg: [buf, eof]
    encoder,       \* the ffmpeg process: [got, exited]
    writer,        \* the thread that calls the pipe: [pc, rest, call]
    pipe_hist      \* history of the calls on the pipe

\* what the frame-level specification uses
framevars ==
    <<stab, frame_means, pipe_frames, n_done, pp_ret, prev_stab, calls, last_add>>

\* what only process_video uses
videovars ==
    <<pc, self, src_fps, target_fps, n_intervals, interval, k_interval, n_stats,
      stat_k, sampled, sampled_iter,
      next_needed, cur_f, cap_pos, batch_frames, batch_indices, pipe, closes,
      reads, done, appended, ended>>

\* one call of a function of the pipeline, taken on its own
callvars == <<sampler_call, lines_call, smoothing_call>>

\* FFmpegPipe and its subprocess, taken on their own
pipevars == <<ff, os_pipe, encoder, writer, pipe_hist>>

vars == <<framevars, videovars, callvars, pipevars>>

\* the variables of the specifications that are not running
CallsIdle ==
    /\ sampler_call = <<>>
    /\ lines_call = <<>>
    /\ smoothing_call = <<>>

PipeIdle ==
    /\ ff = <<>>
    /\ os_pipe = <<>>
    /\ encoder = <<>>
    /\ writer = <<>>
    /\ pipe_hist = <<>>


(***************************************************************************)
(* SlidingStabilityFilter                                                  *)
(***************************************************************************)
Configs ==
    [ init_window      : 1..MaxInitWindow,
      win_size         : {MinWin - 1, MaxWinSize},
      consec_bad_stop  : 1..MaxConsecBadStop,
      require_baseline : BOOLEAN ]

\* SlidingStabilityFilter.__init__
NewFilter(cfg) ==
    [ cfg          |-> cfg,
      win          |-> Max2(MinWin, cfg.win_size),
      dq           |-> <<>>,
      sorted       |-> <<>>,
      warm_n       |-> 0,
      warm_mean    |-> 0,
      warm_M2      |-> 0,
      baseline     |-> None,
      baseline_mad |-> None,
      last_valid   |-> None,
      consec_bad   |-> 0,
      stopped      |-> FALSE ]

\* list.pop(i), i counted from 0
Pop(s, i) == SubSeq(s, 1, i) \o SubSeq(s, i + 2, Len(s))

\* list.insert(i, x), i counted from 0
InsertAt(s, i, x) == SubSeq(s, 1, i) \o <<x>> \o SubSeq(s, i + 1, Len(s))

\* bisect.bisect_left: index (from 0) of the first element >= x
bisect_left(s, x) ==
    LET ge == {i \in 1..Len(s) : s[i] >= x}
    IN  IF ge = {} THEN Len(s) ELSE (CHOOSE i \in ge : \A j \in ge : i <= j) - 1

\* bisect.bisect_right: index (from 0) of the first element > x
bisect_right(s, x) ==
    LET gt == {i \in 1..Len(s) : s[i] > x}
    IN  IF gt = {} THEN Len(s) ELSE (CHOOSE i \in gt : \A j \in gt : i <= j) - 1

\* SlidingStabilityFilter._insert_sorted (bisect.insort)
insert_sorted(s, x) == InsertAt(s, bisect_right(s, x), x)

\* mutant: the value that left the deque stays in the sorted list and the
\* largest value is taken out instead
remove_sorted_largest(s, x) ==
    IF Len(s) > 0 THEN Pop(s, Len(s) - 1) ELSE s

\* SlidingStabilityFilter._remove_sorted; fixed-point values differ by 0 or
\* by at least 1/Unit, so abs(...) <= 1e-12 is equality
remove_sorted(s, x) ==
    LET i == bisect_left(s, x)
    IN  IF i < Len(s) /\ Abs(s[i + 1] - x) = 0
        THEN Pop(s, i)
        ELSE IF Len(s) > 0 THEN Pop(s, Min2(i, Len(s) - 1)) ELSE s

\* list.sort()
RECURSIVE list_sort(_)
list_sort(s) == IF s = <<>> THEN <<>> ELSE insert_sorted(list_sort(Tail(s)), Head(s))

\* SlidingStabilityFilter._median_from_sorted
median_from_sorted(arr) ==
    LET n == Len(arr)
        mid == n \div 2
    IN  IF n % 2 = 1 THEN arr[mid + 1] ELSE (arr[mid] + arr[mid + 1]) \div 2

\* SlidingStabilityFilter._mad_from_window
mad_from_window(vals, median) ==
    LET dev == list_sort([i \in 1..Len(vals) |-> Abs(vals[i] - median)])
        n == Len(dev)
        mid == n \div 2
    IN  IF n % 2 = 1 THEN dev[mid + 1] ELSE (dev[mid] + dev[mid + 1]) \div 2

\* deque(maxlen=win).append
deque_append(dq, win, x) ==
    IF Len(dq) = win THEN Append(Tail(dq), x) ELSE Append(dq, x)

\* SlidingStabilityFilter._warm_update (Welford)
warm_update(f, x) ==
    LET n == f.warm_n + 1
        delta == x - f.warm_mean
        mean == f.warm_mean + delta \div n
    IN  [f EXCEPT !.warm_n = n,
                  !.warm_mean = mean,
                  !.warm_M2 = f.warm_M2 + (delta * (x - mean)) \div Unit]

\* mean > 0 and cv <= init_cv_max, cv = sqrt(M2 / max(n - 1, 1)) / mean;
\* both sides of std <= init_cv_max * mean are squared
CvOk(f) ==
    /\ f.warm_mean > 0
    /\ f.warm_M2 * Unit * InitCvMaxDen * InitCvMaxDen
         <= InitCvMaxNum * InitCvMaxNum * f.warm_mean * f.warm_mean
              * Max2(f.warm_n - 1, 1)
\* mutant: the baseline is built as soon as the CV allows, without waiting
\* for init_window warm-up samples
try_build_baseline_no_window(f) ==
    IF f.baseline # None THEN f
    ELSE IF CvOk(f)
         THEN LET med == median_from_sorted(f.sorted)
              IN  [f EXCEPT !.baseline = Some(med),
                            !.baseline_mad = Some(mad_from_window(f.dq, med))]
         ELSE f

\* mutant: the baseline is the warm-up mean instead of the window median
try_build_baseline_mean(f) ==
    IF f.baseline # None THEN f
    ELSE IF f.warm_n < f.cfg.init_window THEN f
    ELSE IF CvOk(f)
         THEN [f EXCEPT !.baseline = Some(f.warm_mean), !.baseline_mad = Some(0)]
         ELSE f

\* SlidingStabilityFilter._try_build_baseline
try_build_baseline(f) ==
    IF f.baseline # None THEN f
    ELSE IF f.warm_n < f.cfg.init_window THEN f
    ELSE IF CvOk(f)
         THEN LET med == IF f.sorted # <<>> THEN median_from_sorted(f.sorted)
                         ELSE f.warm_mean
                  mad == IF f.sorted # <<>> THEN mad_from_window(f.dq, med)
                         ELSE 0
              IN  [f EXCEPT !.baseline = Some(med), !.baseline_mad = Some(mad)]
         ELSE f

\* robust_sigma = max(1.4826 * mad, 1e-6), as the fraction <<num, den>>
robust_sigma(mad) ==
    IF MadScaleNum * mad * (SigmaEpsDen \div MadScaleDen) >= Unit
    THEN <<MadScaleNum * mad, MadScaleDen>>
    ELSE <<Unit, SigmaEpsDen>>

\* rule 1: abs(value - median) / robust_sigma > z_thresh
ZReject(f, x) ==
    LET median == median_from_sorted(f.sorted)
        mad == mad_from_window(f.dq, median)
        sg == robust_sigma(mad)
    IN  Abs(x - median) * sg[2] * ZThreshDen > ZThreshNum * sg[1]
\* mutant: the relative-to-baseline rule is missing
RelReject_missing(f, x) == FALSE

\* rule 2: baseline exists and not (lo <= value <= hi)
RelReject(f, x) ==
    /\ f.baseline # None
    /\ ~ ( /\ Get(f.baseline) * (RelTolDen - RelTolNum) <= x * RelTolDen
           /\ x * RelTolDen <= Get(f.baseline) * (RelTolDen + RelTolNum) )
\* mutant: the rate-of-change rule is missing
RocReject_missing(f, x) == FALSE

\* rule 3: last_valid exists and abs(value - last_valid) > roc_abs_max
RocReject(f, x) ==
    /\ f.last_valid # None
    /\ Abs(x - Get(f.last_valid)) > RocAbsMax * Unit
\* mutant: stops one rejection late (> instead of >=)
Reject_late(f) ==
    LET c == f.consec_bad + 1
    IN  [ f   |-> [f EXCEPT !.consec_bad = c,
                            !.stopped = IF c > f.cfg.consec_bad_stop
                                        THEN TRUE ELSE f.stopped],
          ret |-> FALSE ]

\* the rejection tail shared by the three rules
Reject(f) ==
    LET c == f.consec_bad + 1
    IN  [ f   |-> [f EXCEPT !.consec_bad = c,
                            !.stopped = IF c >= f.cfg.consec_bad_stop
                                        THEN TRUE ELSE f.stopped],
          ret |-> FALSE ]
\* mutant: acceptance does not reset consec_bad
Accept_no_reset(f, x) ==
    [ f |-> [f EXCEPT !.last_valid = Some(x)], ret |-> TRUE ]

\* the acceptance tail
Accept(f, x) ==
    [ f |-> [f EXCEPT !.consec_bad = 0, !.last_valid = Some(x)], ret |-> TRUE ]

\* the window maintenance at the head of add
WindowUpdate(f, x) ==
    LET popped == IF Len(f.dq) = f.win THEN Some(f.dq[1]) ELSE None
        s1 == insert_sorted(f.sorted, x)
    IN  [f EXCEPT !.dq = deque_append(f.dq, f.win, x),
                  !.sorted = IF popped # None
                             THEN remove_sorted(s1, Get(popped)) ELSE s1]
\* mutant: the warm-up branch never returns early
WarmupReturns_never(f) == FALSE

\* the warm-up branch returns True without any check
WarmupReturns(f) == f.cfg.require_baseline

\* the three rules, then the acceptance tail
Checks(f, x) ==
    IF ZReject(f, x) THEN Reject(f)
    ELSE IF RelReject(f, x) THEN Reject(f)
    ELSE IF RocReject(f, x) THEN Reject(f)
    ELSE Accept(f, x)

\* mutant: a value enters the window only when it is accepted
add_body_window_on_accept(f, x) ==
    \* the window is maintained on a copy and kept only on acceptance
    LET f1 == WindowUpdate(f, x)
        f2 == IF f1.baseline = None
              THEN try_build_baseline(warm_update(f1, x)) ELSE f1
        r == IF f1.baseline = None /\ WarmupReturns(f1)
             THEN [f |-> [f2 EXCEPT !.last_valid = Some(x)], ret |-> TRUE]
             ELSE Checks(f2, x)
    IN  IF r.ret THEN r
        ELSE [f |-> [r.f EXCEPT !.dq = f.dq, !.sorted = f.sorted], ret |-> FALSE]

\* add, from the window maintenance on
add_body(f, x) ==
    LET f1 == WindowUpdate(f, x)
        f2 == IF f1.baseline = None
              THEN try_build_baseline(warm_update(f1, x)) ELSE f1
    IN  IF f1.baseline = None /\ WarmupReturns(f1)
        THEN [f |-> [f2 EXCEPT !.last_valid = Some(x)], ret |-> TRUE]
        ELSE Checks(f2, x)

\* mutant: a stopped filter keeps processing values
add_ignoring_stopped(f, x) == add_body(f, x)

\* SlidingStabilityFilter.add
add(f, x) ==
    IF f.stopped THEN [f |-> f, ret |-> FALSE] ELSE add_body(f, x)

(***************************************************************************)
(* VideoIntervalProcessor: one frame of a batch                            *)
(***************************************************************************)
\* what the predictor and the line extractor yield for a frame:
\* mask is FALSE when extract_max_confidence_segment returns no mask,
\* lines is the list of (x, y1, y2) the extractor returns for the mask
LineLists == {<<>>} \cup { << <<0, 0, h>> >> : h \in Heights }
FrameResults ==
    {[mask |-> FALSE, lines |-> <<>>]} \cup [mask : {TRUE}, lines : LineLists]

\* VideoIntervalProcessor(draw_overlay=True)
draw_overlay == TRUE

RECURSIVE SumLengths(_)
SumLengths(lines) ==
    IF lines = <<>> THEN 0
    ELSE Abs(Head(lines)[3] - Head(lines)[2]) + SumLengths(Tail(lines))

\* mm_mean_from_lines
mm_mean_from_lines(lines, pixel_size_mm) ==
    IF lines = <<>> THEN 0
    ELSE (SumLengths(lines) * Unit * pixel_size_mm) \div Len(lines)

\* _frame_postprocess returning (None, frame) before any add call
NoMeasurement(st) ==
    [mean_mm |-> None, frame_out |-> "frame", stab |-> st, add |-> None]

\* _frame_postprocess from the stability check on; the frame is returned
\* as it came in ("frame") or with the overlay drawn ("overlay"); add is
\* the add call made, when one is made
Measure(res, st) ==
    LET mean_mm == mm_mean_from_lines(res.lines, PixelSizeMm)
    IN  IF st = None
        THEN [mean_mm |-> Some(mean_mm),
              frame_out |-> IF draw_overlay THEN "overlay" ELSE "frame",
              stab |-> st, add |-> None]
        ELSE LET r == add(Get(st), mean_mm)
             IN  IF ~r.ret
                 THEN [mean_mm |-> None, frame_out |-> "frame",
                       stab |-> Some(r.f),
                       add |-> Some([value |-> mean_mm, ret |-> FALSE])]
                 ELSE [mean_mm |-> Some(mean_mm),
                       frame_out |-> IF draw_overlay THEN "overlay" ELSE "frame",
                       stab |-> Some(r.f),
                       add |-> Some([value |-> mean_mm, ret |-> TRUE])]

\* mutant: an empty list of lines is measured as 0.0 mm
frame_postprocess_no_lines_check(res, st) ==
    IF ~res.mask THEN NoMeasurement(st) ELSE Measure(res, st)

\* VideoIntervalProcessor._frame_postprocess
frame_postprocess(res, st) ==
    IF ~res.mask THEN NoMeasurement(st)
    ELSE IF res.lines = <<>> THEN NoMeasurement(st)
    ELSE Measure(res, st)

(***************************************************************************)
(* VideoIntervalProcessor.process_video                                    *)
(***************************************************************************)
\* inputs of a call
Rates == {1, 3}              \* src_fps
TargetRates == {0, 2}        \* target_fps; 0 stands for the source rate
Seconds == 0..1              \* start_s and end_s of an interval
BatchSizes == {1, 2, 3}      \* self.batch_size
IntervalInputs == Seconds \X Seconds   \* one (start_s, end_s) of intervals

\* stability_filter_config of the processor
VideoConfigs ==
    {None} \cup
    { Some([init_window |-> 1, win_size |-> MinWin, consec_bad_stop |-> c,
            require_baseline |-> TRUE]) : c \in {1, 2} }

\* what the predictor and the line extractor yield for a decoded frame
VideoResults ==
    { [mask |-> FALSE, lines |-> <<>>],
      [mask |-> TRUE, lines |-> <<>>],
      [mask |-> TRUE, lines |-> << <<0, 0, 10>> >>],
      [mask |-> TRUE, lines |-> << <<0, 0, 13>> >>] }

\* round(num / den) of Python: halves go to the even neighbour
RoundHalfEven(num, den) ==
    LET q == num \div den
        r == num % den
    IN  IF 2 * r < den THEN q
        ELSE IF 2 * r > den THEN q + 1
        ELSE IF q % 2 = 0 THEN q ELSE q + 1

\* line 155 raises ZeroDivisionError: both rates were substituted and the
\* divisor is 0
ratio_raises(sfps, tfps) ==
    (IF tfps <= 0 THEN sfps ELSE tfps) = 0

\* src_fps / target_fps > 1.05 for rates of the same sign, t # 0
RatioAbove(s, t) ==
    IF t > 0 THEN 20 * s > 21 * t ELSE 20 * s < 21 * t

\* int(round(start_f + i * ratio)), ratio = s / t
sampled_index(start_f, i, s, t) ==
    RoundHalfEven(start_f * t + i * s, t)

\* mutant: every frame is returned only up to a ratio of 1
every_frame_up_to_one(s, t) ==
    IF t > 0 THEN s <= t ELSE s >= t

\* ratio <= 1.05
every_frame(s, t) == ~RatioAbove(s, t)

\* mutant: the number of indices is rounded up
sample_count_ceil(len, s, t) ==
    Max2(1, (len * t + s - 1) \div s)

\* n = max(1, int(math.floor((end_f - start_f + 1) / ratio)))
sample_count(len, s, t) ==
    Max2(1, (len * t) \div s)

\* VideoIntervalProcessor._choose_sampled_indices, when line 155 does not
\* raise
choose_sampled_indices(start_f, end_f, sfps, tfps) ==
    LET t == IF tfps <= 0 THEN sfps ELSE tfps
        s == IF sfps <= 0 THEN t ELSE sfps
    IN  IF every_frame(s, t)
        THEN [i \in 1..(end_f - start_f + 1) |-> start_f + i - 1]
        ELSE LET n == sample_count(end_f - start_f + 1, s, t)
                 idxs == [i \in 1..n |-> sampled_index(start_f, i - 1, s, t)]
             IN  SelectSeq(idxs, LAMBDA i : start_f <= i /\ i <= end_f)

\* start_s, end_s, start_f and end_f of an interval (start_s, end_s)
StartS(iv) == Max2(0, iv[1])
EndS(iv) == Max2(StartS(iv), iv[2])
StartF(iv) == Min2(StartS(iv) * src_fps, Max2(TotalFrames - 1, 0))
EndF(iv) == Min2(EndS(iv) * src_fps, Max2(TotalFrames - 1, 0))

\* FFmpegPipe: proc is whether the subprocess is held, frames is what was
\* written to its stdin, in write order (each frame named by its source)
FFmpegPipe_new == [proc |-> TRUE, frames |-> <<>>]
write_frame_rgb_array(p, frame) == [p EXCEPT !.frames = Append(@, frame)]
close(p) == [p EXCEPT !.proc = FALSE]

\* lines 252-259 for the frame frm of index idx, pp being what
\* _frame_postprocess returned; s = [stab, frame_means, pipe, done, calls,
\* n, raised, batch_frames, batch_indices]
after_postprocess(s, frm, idx, pp) ==
    [s EXCEPT
       !.stab = pp.stab,
       !.frame_means = IF pp.mean_mm # None
                       THEN Append(@, <<idx, Get(pp.mean_mm)>>)
                       ELSE @,
       !.done = Append(@, [src |-> frm.src, idx |-> idx, res |-> frm.res,
                            mean_mm |-> pp.mean_mm, add |-> pp.add]),
       !.calls = IF pp.add # None THEN Append(@, Get(pp.add)) ELSE @,
       !.n = @ + 1]

\* lines 260-261 for the frame frm
after_write(s, frm) ==
    IF s.pipe = None THEN s
    ELSE [s EXCEPT !.pipe = Some(write_frame_rgb_array(Get(@), frm.src))]

\* the for loop of flush_batch over zip(frames, results, indices), from the
\* state s; fault = j > 0 makes the write of the j-th frame raise
RECURSIVE flush_loop(_, _, _, _)
flush_write(frames, indices, s, fault) ==
    IF s.pipe # None /\ fault = s.n
    THEN [s EXCEPT !.raised = TRUE]
    ELSE flush_loop(Tail(frames), Tail(indices), after_write(s, Head(frames)),
                    fault)

flush_loop(frames, indices, s, fault) ==
    IF frames = <<>> \/ indices = <<>> THEN s
    ELSE flush_write(frames, indices,
                     after_postprocess(s, Head(frames), Head(indices),
                                       frame_postprocess(Head(frames).res,
                                                         s.stab)),
                     fault)

\* faults of one flush_batch call: 0 none, -1 batch_uniform_resize_cuda or
\* predict raises, j > 0 write_frame_rgb_array raises on the j-th frame
Faults(frames, p) ==
    {0} \cup (IF frames # <<>> THEN {-1} ELSE {})
        \cup (IF p # None THEN 1..Len(frames) ELSE {})

\* what flush_batch starts from
flush_state(frames, indices, s) ==
    [stab |-> s.stab, frame_means |-> s.frame_means, pipe |-> s.pipe,
     done |-> s.done, calls |-> s.calls, n |-> 0, raised |-> FALSE,
     batch_frames |-> frames, batch_indices |-> indices]

\* lines 263-264, reached when nothing raised
clear_batch(r) ==
    IF r.raised THEN r
    ELSE [r EXCEPT !.batch_frames = <<>>, !.batch_indices = <<>>]

\* mutant of clear_batch that leaves batch_indices as it is
clear_batch_frames_only(r) ==
    IF r.raised THEN r ELSE [r EXCEPT !.batch_frames = <<>>]

Reverse(q) == [i \in 1..Len(q) |-> q[Len(q) + 1 - i]]

\* mutant: batch_indices is not cleared after the batch
flush_batch_stale_indices(frames, indices, s, fault) ==
    IF frames = <<>> THEN flush_state(frames, indices, s)
    ELSE IF fault = -1
    THEN [flush_state(frames, indices, s) EXCEPT !.raised = TRUE]
    ELSE clear_batch_frames_only(
             flush_loop(frames, indices, flush_state(frames, indices, s), fault))

\* mutant: batch_frames and batch_indices are not cleared after the batch
flush_batch_no_clear(frames, indices, s, fault) ==
    IF frames = <<>> THEN flush_state(frames, indices, s)
    ELSE IF fault = -1
    THEN [flush_state(frames, indices, s) EXCEPT !.raised = TRUE]
    ELSE flush_loop(frames, indices, flush_state(frames, indices, s), fault)

\* mutant: the frames of a batch are taken last first
flush_batch_reversed(frames, indices, s, fault) ==
    IF frames = <<>> THEN flush_state(frames, indices, s)
    ELSE IF fault = -1
    THEN [flush_state(frames, indices, s) EXCEPT !.raised = TRUE]
    ELSE clear_batch(
             flush_loop(Reverse(frames), Reverse(indices),
                        flush_state(frames, indices, s), fault))

\* flush_batch on the batch (frames, indices); the result carries the batch
\* left behind and whether the call raised
flush_batch(frames, indices, s, fault) ==
    IF frames = <<>> THEN flush_state(frames, indices, s)
    ELSE IF fault = -1
    THEN [flush_state(frames, indices, s) EXCEPT !.raised = TRUE]
    ELSE clear_batch(
             flush_loop(frames, indices, flush_state(frames, indices, s), fault))

\* value -1 of the statistics of an interval without accepted measurement
NoStat == 0 - Unit

\* mutant: the last position of the maximum
argmax_last(vals) ==
    CHOOSE i \in 1..Len(vals) :
        /\ \A j \in 1..Len(vals) : vals[j] <= vals[i]
        /\ \A j \in (i + 1)..Len(vals) : vals[j] < vals[i]

\* np.argmax: the first position of the maximum
argmax(vals) ==
    CHOOSE i \in 1..Len(vals) :
        /\ \A j \in 1..Len(vals) : vals[j] <= vals[i]
        /\ \A j \in 1..(i - 1) : vals[j] < vals[i]

\* mutant: an interval without accepted measurement gets 0 for its statistics
interval_stat_zero(iv, smp, fm, fps) ==
    LET means_only == [i \in 1..Len(fm) |-> fm[i][2]]
        max_pos == argmax(means_only)
    IN  [ start_s          |-> StartS(iv),
          end_s            |-> EndS(iv),
          frame_count      |-> Len(smp),
          mean_of_means_mm |-> IF fm # <<>>
                               THEN SumSeq(means_only) \div Len(fm)
                               ELSE 0,
          max_of_means_mm  |-> IF fm # <<>> THEN means_only[max_pos]
                               ELSE 0,
          max_at_s         |-> IF fm # <<>>
                               THEN (fm[max_pos][1] * Unit) \div fps
                               ELSE 0 ]

\* the statistics of an interval, lines 297-318
interval_stat(iv, smp, fm, fps) ==
    LET means_only == [i \in 1..Len(fm) |-> fm[i][2]]
        max_pos == argmax(means_only)
    IN  [ start_s          |-> StartS(iv),
          end_s            |-> EndS(iv),
          frame_count      |-> Len(smp),
          mean_of_means_mm |-> IF fm # <<>>
                               THEN SumSeq(means_only) \div Len(fm)
                               ELSE NoStat,
          max_of_means_mm  |-> IF fm # <<>> THEN means_only[max_pos]
                               ELSE NoStat,
          max_at_s         |-> IF fm # <<>>
                               THEN (fm[max_pos][1] * Unit) \div fps
                               ELSE NoStat ]

\* the frame-level variables while another specification runs
FrameIdle ==
    /\ stab = None
    /\ frame_means = <<>>
    /\ pipe_frames = <<>>
    /\ n_done = 0
    /\ pp_ret = None
    /\ prev_stab = None
    /\ calls = <<>>
    /\ last_add = FALSE

\* the state while the frame-level specification runs
VideoIdle ==
    /\ pc = "frames"
    /\ self = None
    /\ src_fps = 0
    /\ target_fps = 0
    /\ n_intervals = 0
    /\ interval = <<0, 0>>
    /\ k_interval = 0
    /\ n_stats = 0
    /\ stat_k = None
    /\ sampled = <<>>
    /\ sampled_iter = <<>>
    /\ next_needed = None
    /\ cur_f = 0
    /\ cap_pos = 0
    /\ batch_frames = <<>>
    /\ batch_indices = <<>>
    /\ pipe = None
    /\ closes = 0
    /\ reads = <<>>
    /\ done = <<>>
    /\ appended = <<>>
    /\ ended = None

Init ==
    /\ stab \in {None} \cup {Some(NewFilter(c)) : c \in Configs}
    /\ frame_means = <<>>
    /\ pipe_frames = <<>>
    /\ n_done = 0
    /\ pp_ret = None
    /\ prev_stab = None
    /\ calls = <<>>
    /\ last_add = FALSE
    /\ VideoIdle
    /\ CallsIdle
    /\ PipeIdle

\* the body of the loop of flush_batch for the frame of index n_done
FlushFrame(res) ==
    /\ n_done < MaxFrames
    /\ \E pp \in {frame_postprocess(res, stab)} :
           /\ stab' = pp.stab
           /\ frame_means' = IF pp.mean_mm # None
                             THEN Append(frame_means, <<n_done, Get(pp.mean_mm)>>)
                             ELSE frame_means
           /\ pipe_frames' = Append(pipe_frames, pp.frame_out)
           /\ pp_ret' = Some([res |-> res, mean_mm |-> pp.mean_mm,
                              frame_out |-> pp.frame_out])
           /\ last_add' = (pp.add # None)
           /\ calls' = IF pp.add # None THEN Append(calls, Get(pp.add)) ELSE calls
    /\ prev_stab' = stab
    /\ n_done' = n_done + 1
    /\ UNCHANGED <<videovars, callvars, pipevars>>

Next == \E res \in FrameResults : FlushFrame(res)

Spec == Init /\ [][Next]_vars

(***************************************************************************)
(* process_video as a state machine                                        *)
(***************************************************************************)
InitVideo ==
    /\ stab = None
    /\ frame_means = <<>>
    /\ pipe_frames = <<>>
    /\ n_done = 0
    /\ pp_ret = None
    /\ prev_stab = None
    /\ calls = <<>>
    /\ last_add = FALSE
    /\ pc \in {"open", "wrapper"}
    /\ self \in [batch_size : BatchSizes, save_video : BOOLEAN,
                 stability_filter_config : VideoConfigs]
    /\ src_fps \in Rates
    /\ target_fps \in TargetRates
    /\ n_intervals \in 0..MaxIntervals
    /\ interval = <<0, 0>>
    /\ k_interval = 0
    /\ n_stats = 0
    /\ stat_k = None
    /\ sampled = <<>>
    /\ sampled_iter = <<>>
    /\ next_needed = None
    /\ cur_f = 0
    /\ cap_pos = 0
    /\ batch_frames = <<>>
    /\ batch_indices = <<>>
    /\ pipe = None
    /\ closes = 0
    /\ reads = <<>>
    /\ done = <<>>
    /\ appended = <<>>
    /\ ended = None
    /\ CallsIdle
    /\ PipeIdle

\* mutant: the filter of the interval before is kept when there is one
interval_filter_shared(prev, config) ==
    IF config = None THEN None
    ELSE IF prev # None THEN prev
    ELSE Some(NewFilter(Get(config)))

\* lines 212-215: the filter of an interval; prev is what stab was bound to
interval_filter(prev, config) ==
    IF config # None THEN Some(NewFilter(Get(config))) ELSE None

frameonly == <<pipe_frames, n_done, pp_ret, prev_stab, last_add>>
callargs == <<self, src_fps, target_fps, n_intervals>>

\* process_video.py lines 43-64: the wrapper makes one SlidingStabilityFilter
\* and hands it to VideoIntervalProcessor as stability_filter, a keyword
\* that __init__ (video_processor.py lines 41-56) does not take: TypeError
\* is raised before any interval is processed
WrapperCall ==
    /\ pc = "wrapper"
    /\ pc' = "raised_init"
    /\ UNCHANGED <<callvars, pipevars, framevars, callargs,
                   interval, k_interval, n_stats, stat_k,
                   sampled,
                   sampled_iter, next_needed, cur_f, cap_pos, batch_frames,
                   batch_indices, pipe, closes, reads, done, appended, ended>>

\* lines 184-201: the capture is opened, or RuntimeError is raised
OpenVideo ==
    /\ pc = "open"
    /\ \E isOpened \in BOOLEAN : pc' = IF isOpened THEN "for" ELSE "raised_open"
    /\ UNCHANGED <<callvars, pipevars, framevars, callargs,
                   interval, k_interval, n_stats, stat_k,
                   sampled,
                   sampled_iter, next_needed, cur_f, cap_pos, batch_frames,
                   batch_indices, pipe, closes, reads, done,
                   appended, ended>>

\* lines 204-272: the head of the for loop up to the while loop.  The
\* FFmpegPipe constructor starts the subprocess itself (ffmpeg_pipe.py line
\* 80): it returns a pipe with the subprocess started, or raises (Popen at
\* line 144; the keyword pixel_format of the call at lines 222-230, which
\* __init__ at lines 28-57 does not take).  The model keeps both outcomes
\* whatever the keywords, so that the encoder path of the loop is covered.
StartInterval ==
    /\ pc = "for"
    /\ k_interval < n_intervals
    /\ k_interval' = k_interval + 1
    /\ \E iv \in IntervalInputs :
       \E smp \in {choose_sampled_indices(StartF(iv), EndF(iv),
                                          src_fps, target_fps)} :
           /\ interval' = iv
           /\ sampled' = smp
           /\ stab' = interval_filter(stab, self.stability_filter_config)
           /\ calls' = <<>>
           /\ closes' = 0
           /\ \E started \in (IF self.save_video THEN BOOLEAN ELSE {FALSE}) :
                  IF self.save_video /\ ~started
                  THEN /\ pc' = "raised_start"
                       /\ pipe' = None
                       /\ UNCHANGED <<frame_means, batch_frames, batch_indices,
                                      sampled_iter, next_needed, cap_pos, cur_f,
                                      reads, done, appended>>
                  ELSE /\ pc' = "while"
                       /\ pipe' = IF self.save_video THEN Some(FFmpegPipe_new)
                                  ELSE None
                       /\ frame_means' = <<>>
                       /\ reads' = <<>>
                       /\ done' = <<>>
                       /\ appended' = <<>>
                       /\ batch_frames' = <<>>
                       /\ batch_indices' = <<>>
                       /\ sampled_iter' = IF smp = <<>> THEN <<>> ELSE Tail(smp)
                       /\ next_needed' = IF smp = <<>> THEN None
                                         ELSE Some(Head(smp))
                       /\ cap_pos' = StartF(iv)
                       /\ cur_f' = StartF(iv)
    /\ UNCHANGED <<callvars, pipevars, frameonly, callargs,
                   n_stats, stat_k, ended>>

\* mutant: the while loop never looks at stab.stopped
StoppedBreak_never == FALSE

\* lines 276-277: the filter has stopped
StoppedBreak == stab # None /\ Get(stab).stopped

\* mutant: the scan stops one frame before end_f
LoopGuard_exclusive_end ==
    /\ cur_f < EndF(interval)
    /\ next_needed # None
    /\ ~StoppedBreak

\* line 275 and lines 276-277: the while loop goes on to cap.read
LoopGuard ==
    /\ cur_f <= EndF(interval)
    /\ next_needed # None
    /\ ~StoppedBreak

\* what flush_batch works on
FlushState ==
    [stab |-> stab, frame_means |-> frame_means, pipe |-> pipe,
     done |-> done, calls |-> calls]

\* lines 275-290: one iteration of the while loop that reaches cap.read
LoopIteration ==
    /\ pc = "while"
    /\ LoopGuard
    /\ \E ok \in (IF cap_pos < TotalFrames THEN BOOLEAN ELSE {FALSE}) :
        /\ reads' = Append(reads, [f |-> cap_pos, ok |-> ok,
                                   stopped |-> stab # None /\ Get(stab).stopped])
        /\ IF ~ok
           THEN /\ pc' = "break"
                /\ UNCHANGED <<stab, frame_means, calls, done, pipe, cap_pos,
                               cur_f, next_needed, sampled_iter, batch_frames,
                               batch_indices, appended>>
           ELSE /\ cap_pos' = cap_pos + 1
                /\ IF Some(cur_f) # next_needed
                   THEN /\ cur_f' = cur_f + 1
                        /\ pc' = "while"
                        /\ UNCHANGED <<stab, frame_means, calls, done, pipe,
                                       next_needed, sampled_iter, batch_frames,
                                       batch_indices, appended>>
                   ELSE \E res \in VideoResults :
                        LET bf == Append(batch_frames,
                                         [src |-> cap_pos, res |-> res])
                            bi == Append(batch_indices, cur_f)
                        IN  \E fault \in (IF Len(bf) >= self.batch_size
                                          THEN Faults(bf, pipe) ELSE {0}) :
                            \E r \in {flush_batch(
                                        IF Len(bf) >= self.batch_size
                                        THEN bf ELSE <<>>,
                                        bi, FlushState, fault)} :
                              /\ appended' = Append(appended, cap_pos)
                              /\ stab' = r.stab
                              /\ frame_means' = r.frame_means
                              /\ calls' = r.calls
                              /\ done' = r.done
                              /\ pipe' = r.pipe
                              /\ IF Len(bf) >= self.batch_size
                                 THEN /\ batch_frames' = r.batch_frames
                                      /\ batch_indices' = r.batch_indices
                                 ELSE /\ batch_frames' = bf
                                      /\ batch_indices' = bi
                              /\ IF r.raised
                                 THEN /\ pc' = "raised_flush"
                                      /\ UNCHANGED <<cur_f, next_needed,
                                                     sampled_iter>>
                                 ELSE /\ pc' = "while"
                                      /\ cur_f' = cur_f + 1
                                      /\ next_needed' =
                                           IF sampled_iter = <<>> THEN None
                                           ELSE Some(Head(sampled_iter))
                                      /\ sampled_iter' =
                                           IF sampled_iter = <<>> THEN <<>>
                                           ELSE Tail(sampled_iter)
    /\ UNCHANGED <<callvars, pipevars, frameonly, callargs,
                   interval, k_interval, n_stats, stat_k,
                   sampled, closes, ended>>

\* mutant: the batch is dropped when the loop was left on a failed read
FinalFlush_dropped_on_break(fault) ==
    flush_batch(IF pc = "break" THEN <<>> ELSE batch_frames,
                batch_indices, FlushState, fault)

\* line 293: flush_batch() after the while loop
FinalFlush(fault) ==
    flush_batch(batch_frames, batch_indices, FlushState, fault)

\* lines 293-318: the while loop is left; the rest of the batch is flushed,
\* the pipe is closed and the IntervalStat of the interval is stored
EndInterval ==
    /\ \/ pc = "break"
       \/ pc = "while" /\ ~LoopGuard
    /\ \E fault \in Faults(batch_frames, pipe) :
       \E r \in {FinalFlush(fault)} :
          /\ stab' = r.stab
          /\ frame_means' = r.frame_means
          /\ calls' = r.calls
          /\ done' = r.done
          /\ batch_frames' = r.batch_frames
          /\ batch_indices' = r.batch_indices
          /\ IF r.raised
             THEN /\ pc' = "raised_flush"
                  /\ pipe' = r.pipe
                  /\ UNCHANGED <<closes, n_stats, stat_k, ended>>
             ELSE /\ pc' = "for"
                  /\ pipe' = IF r.pipe # None THEN Some(close(Get(r.pipe)))
                             ELSE None
                  /\ closes' = IF r.pipe # None THEN closes + 1 ELSE closes
                  /\ n_stats' = n_stats + 1
                  /\ stat_k' = Some(interval_stat(interval, sampled,
                                                  r.frame_means, src_fps))
                  /\ ended' = Some([stopped |-> r.stab # None /\ Get(r.stab).stopped,
                                      decode_failed |-> pc = "break",
                                      frame_means |-> r.frame_means,
                                      appended |-> Len(appended),
                                      done |-> Len(r.done),
                                      written |-> IF r.pipe # None
                                                  THEN Len(Get(r.pipe).frames)
                                                  ELSE 0,
                                      closes |-> closes'])
    /\ UNCHANGED <<callvars, pipevars, frameonly, callargs,
                   interval, k_interval, sampled,
                   sampled_iter, next_needed, cur_f, cap_pos, reads, appended>>

\* lines 320-321: every interval is done; stats is returned
Return ==
    /\ pc = "for"
    /\ k_interval = n_intervals
    /\ pc' = "returned"
    /\ UNCHANGED <<callvars, pipevars, framevars, callargs,
                   interval, k_interval, n_stats, stat_k,
                   sampled,
                   sampled_iter, next_needed, cur_f, cap_pos, batch_frames,
                   batch_indices, pipe, closes, reads, done,
                   appended, ended>>

NextVideo ==
    \/ WrapperCall
    \/ OpenVideo
    \/ StartInterval
    \/ LoopIteration
    \/ EndInterval
    \/ Return

SpecVideo == InitVideo /\ [][NextVideo]_vars

(***************************************************************************)
(* History helpers for the properties                                      *)
(***************************************************************************)
F == Get(stab)                 \* the filter now
P == Get(prev_stab)            \* the filter at entry to the last frame
LastCall == calls[Len(calls)]  \* the last add call
CallValues == [i \in 1..Len(calls) |-> calls[i].value]

\* number of add calls in a row, up to the last one, that returned False
RECURSIVE TrailingRejections(_)
TrailingRejections(cs) ==
    IF cs = <<>> THEN 0
    ELSE IF cs[Len(cs)].ret THEN 0
    ELSE 1 + TrailingRejections(SubSeq(cs, 1, Len(cs) - 1))

\* the filter had stopped before the k-th add call was made
StoppedBefore(k) ==
    \E j \in 1..(k - 1) :
        TrailingRejections(SubSeq(calls, 1, j)) >= F.cfg.consec_bad_stop

\* coefficient of variation of the values vs (fixed point) at most
\* init_cv_max, with positive mean, from the textbook sample variance
HistCvOk(vs) ==
    LET mm == [i \in 1..Len(vs) |-> vs[i] \div Unit]
        n == Len(mm)
        sm == SumSeq(mm)
        sq == SumSeq([i \in 1..n |-> mm[i] * mm[i]])
    IN  /\ n >= 1
        /\ sm > 0
        /\ InitCvMaxDen * InitCvMaxDen * n * (n * sq - sm * sm)
             <= InitCvMaxNum * InitCvMaxNum * Max2(n - 1, 1) * sm * sm

\* k-th smallest (k from 1) of the values of vs, by rank
KthSmallest(vs, k) ==
    CHOOSE v \in {vs[i] : i \in 1..Len(vs)} :
        /\ Cardinality({i \in 1..Len(vs) : vs[i] < v}) < k
        /\ k <= Cardinality({i \in 1..Len(vs) : vs[i] <= v})

\* median of the values of vs
HistMedian(vs) ==
    LET n == Len(vs)
    IN  IF n % 2 = 1 THEN KthSmallest(vs, (n + 1) \div 2)
        ELSE (KthSmallest(vs, n \div 2) + KthSmallest(vs, n \div 2 + 1)) \div 2

LastK(q, k) == SubSeq(q, Len(q) - k + 1, Len(q))

IsSortedSeq(q) == \A i \in 1..(Len(q) - 1) : q[i] <= q[i + 1]

SameBag(q, r) ==
    /\ Len(q) = Len(r)
    /\ \A v \in {q[i] : i \in 1..Len(q)} :
         Cardinality({i \in 1..Len(q) : q[i] = v})
           = Cardinality({i \in 1..Len(r) : r[i] = v})

\* b * (1 - rel_tol) <= v <= b * (1 + rel_tol)
InRelRange(b, v) ==
    /\ b * (RelTolDen - RelTolNum) <= v * RelTolDen
    /\ v * RelTolDen <= b * (RelTolDen + RelTolNum)

(***************************************************************************)
(* Properties                                                              *)
(***************************************************************************)

\* C1: once stopped is true it stays true, and every later add call returns
\* False and leaves the whole filter state as it was, whatever the value.
C1_StoppedIsFrozen ==
    (prev_stab # None /\ P.stopped) =>
        /\ stab = prev_stab
        /\ last_add => ~LastCall.ret

\* an add call was made on a filter that had already stopped
C1_Witness == prev_stab # None /\ P.stopped /\ last_add

\* C2: stopped holds exactly when consec_bad >= consec_bad_stop, and exactly
\* when the last consec_bad_stop add calls (at least) were all rejections;
\* until then consec_bad is the number of rejections in a row.
C2_StoppedIffRun ==
    stab # None =>
        /\ F.stopped <=> (F.consec_bad >= F.cfg.consec_bad_stop)
        /\ F.stopped <=> (TrailingRejections(calls) >= F.cfg.consec_bad_stop)
        /\ ~F.stopped => F.consec_bad = TrailingRejections(calls)

\* the second rejection in a row has just stopped a filter with
\* consec_bad_stop = 2
C2_Witness ==
    /\ stab # None /\ prev_stab # None /\ last_add
    /\ F.cfg.consec_bad_stop > 1
    /\ ~P.stopped /\ F.stopped
    /\ TrailingRejections(calls) = F.cfg.consec_bad_stop

\* C3: with require_baseline, an add call entered without a baseline returns
\* True and neither counts a rejection nor stops; a filter without baseline
\* has never rejected and is not stopped.
C3_WarmupAccepts ==
    /\ (stab # None /\ F.cfg.require_baseline /\ F.baseline = None) =>
          /\ \A i \in 1..Len(calls) : calls[i].ret
          /\ F.consec_bad = 0
          /\ ~F.stopped
    /\ (prev_stab # None /\ last_add /\ P.cfg.require_baseline
          /\ P.baseline = None) =>
          /\ LastCall.ret
          /\ F.consec_bad = P.consec_bad
          /\ ~F.stopped

\* a value more than roc_abs_max away from last_valid was accepted during
\* warm-up
C3_Witness ==
    /\ prev_stab # None /\ last_add
    /\ P.cfg.require_baseline /\ P.baseline = None
    /\ P.last_valid # None
    /\ Abs(LastCall.value - Get(P.last_valid)) > RocAbsMax * Unit
    /\ LastCall.ret

\* C4: the baseline is None until init_window values have been added; it
\* appears only at an add call with warm-up count >= init_window and CV of
\* the values added so far <= init_cv_max with positive mean; once set,
\* baseline and baseline_mad never change.
C4_BaselineOnce ==
    /\ (stab # None /\ F.baseline # None) =>
          /\ Len(calls) >= F.cfg.init_window
          /\ F.warm_n >= F.cfg.init_window
          /\ F.baseline_mad # None
    /\ (stab # None /\ F.baseline = None) => F.baseline_mad = None
    /\ (prev_stab # None /\ P.baseline = None /\ F.baseline # None) =>
          /\ last_add
          /\ F.warm_n = Len(calls)
          /\ HistCvOk(CallValues)
    /\ (prev_stab # None /\ P.baseline # None) =>
          /\ F.baseline = P.baseline
          /\ F.baseline_mad = P.baseline_mad

\* an add call made with a baseline in place left it alone although the
\* window median has moved away from it
C4_Witness ==
    /\ prev_stab # None /\ last_add
    /\ P.baseline # None /\ ~P.stopped
    /\ F.cfg.init_window > 1
    /\ median_from_sorted(F.sorted) # Get(F.baseline)

\* C5 as stated: after exactly init_window values with CV <= init_cv_max the
\* baseline is the median of those init_window values, for every init_window
\* and win_size.
C5_Original ==
    (stab # None /\ Len(calls) = F.cfg.init_window /\ HistCvOk(CallValues)) =>
        F.baseline = Some(HistMedian(CallValues))

\* C5 amended: after exactly init_window values with CV <= init_cv_max, fed
\* to a filter that had not stopped before the last of them, the baseline is
\* the median of the sliding window, that is of the last
\* min(init_window, max(3, win_size)) of those values.
C5_BaselineIsWindowMedian ==
    (stab # None /\ Len(calls) = F.cfg.init_window /\ HistCvOk(CallValues)
       /\ ~StoppedBefore(Len(calls))) =>
        /\ F.baseline
             = Some(HistMedian(LastK(CallValues, Min2(Len(calls), F.win))))
        /\ F.cfg.init_window <= F.win =>
             F.baseline = Some(HistMedian(CallValues))

\* the baseline was just built from init_window > win values, and it is not
\* the median of all of them
C5_Witness ==
    /\ stab # None /\ last_add
    /\ Len(calls) = F.cfg.init_window
    /\ F.cfg.init_window > F.win
    /\ HistCvOk(CallValues)
    /\ F.baseline # None
    /\ F.baseline # Some(HistMedian(CallValues))

\* C6 as stated: after an add returning True, consec_bad = 0 and last_valid
\* is the value; after an add returning False, last_valid, baseline and
\* baseline_mad are as before the call.
C6_Original ==
    (prev_stab # None /\ last_add) =>
        /\ LastCall.ret =>
             /\ F.consec_bad = 0
             /\ F.last_valid = Some(LastCall.value)
        /\ ~LastCall.ret =>
             /\ F.last_valid = P.last_valid
             /\ F.baseline = P.baseline
             /\ F.baseline_mad = P.baseline_mad

\* C6 amended: as stated, except that baseline and baseline_mad are as
\* before a call returning False only when a baseline existed at entry or
\* require_baseline is true (without require_baseline the call that builds
\* the baseline can itself be rejected).
C6_AcceptRejectEffects ==
    (prev_stab # None /\ last_add) =>
        /\ LastCall.ret =>
             /\ F.consec_bad = 0
             /\ F.last_valid = Some(LastCall.value)
        /\ ~LastCall.ret =>
             /\ F.last_valid = P.last_valid
             /\ (P.baseline # None \/ P.cfg.require_baseline) =>
                  /\ F.baseline = P.baseline
                  /\ F.baseline_mad = P.baseline_mad

\* a value was accepted right after a rejection
C6_Witness ==
    /\ prev_stab # None /\ last_add
    /\ LastCall.ret
    /\ P.consec_bad > 0

\* C7 as stated: an add call that returns False in steady state on a filter
\* that is not stopped leaves deque and sorted list as they were.
C7_Original ==
    (prev_stab # None /\ last_add /\ ~LastCall.ret /\ ~P.stopped
       /\ P.baseline # None) =>
        /\ F.dq = P.dq
        /\ F.sorted = P.sorted

\* C7 amended: every add call on a filter that is not stopped puts the value
\* into the sliding window before any check, accepted or not: the deque is
\* the old deque plus the value, cut to its last win entries, and the sorted
\* list is that deque in ascending order.
C7_WindowTakesEveryValue ==
    (prev_stab # None /\ last_add /\ ~P.stopped) =>
        /\ F.dq = LastK(Append(P.dq, LastCall.value),
                        Min2(Len(P.dq) + 1, P.win))
        /\ IsSortedSeq(F.sorted)
        /\ SameBag(F.sorted, F.dq)

\* a value rejected in steady state is now the newest entry of the window
C7_Witness ==
    /\ prev_stab # None /\ last_add
    /\ ~LastCall.ret /\ ~P.stopped /\ P.baseline # None
    /\ F.dq # P.dq
    /\ F.dq[Len(F.dq)] = LastCall.value

\* C8 as stated: with a baseline b at entry, an accepted value lies in
\* [b*(1-rel_tol), b*(1+rel_tol)], and a value outside is rejected: add
\* returns False and consec_bad is incremented.
C8_Original ==
    (prev_stab # None /\ last_add /\ P.baseline # None) =>
        /\ LastCall.ret => InRelRange(Get(P.baseline), LastCall.value)
        /\ ~InRelRange(Get(P.baseline), LastCall.value) =>
             /\ ~LastCall.ret
             /\ F.consec_bad = P.consec_bad + 1

\* C8 amended: as stated, except that consec_bad is incremented only when
\* the filter was not already stopped at entry (a stopped filter returns
\* False and keeps consec_bad).
C8_RelativeToBaseline ==
    (prev_stab # None /\ last_add /\ P.baseline # None) =>
        /\ LastCall.ret => InRelRange(Get(P.baseline), LastCall.value)
        /\ ~InRelRange(Get(P.baseline), LastCall.value) =>
             /\ ~LastCall.ret
             /\ ~P.stopped => F.consec_bad = P.consec_bad + 1
             /\ P.stopped => F.consec_bad = P.consec_bad

\* a value outside the range was rejected by the relative rule alone
C8_Witness ==
    /\ prev_stab # None /\ last_add
    /\ P.baseline # None /\ ~P.stopped
    /\ ~InRelRange(Get(P.baseline), LastCall.value)
    /\ ~ZReject(F, LastCall.value)
    /\ Abs(LastCall.value - Get(P.last_valid)) <= RocAbsMax * Unit
    /\ ~LastCall.ret

\* C9: with a baseline at entry, last_valid exists and an accepted value is
\* within roc_abs_max of last_valid as it was at entry; a value further away
\* is rejected.
C9_RateOfChange ==
    (prev_stab # None /\ last_add /\ P.baseline # None) =>
        /\ P.last_valid # None
        /\ LastCall.ret =>
             Abs(LastCall.value - Get(P.last_valid)) <= RocAbsMax * Unit
        /\ Abs(LastCall.value - Get(P.last_valid)) > RocAbsMax * Unit =>
             ~LastCall.ret

\* a value inside the relative range and passing the z-score was rejected
\* by the rate-of-change rule alone
C9_Witness ==
    /\ prev_stab # None /\ last_add
    /\ P.baseline # None /\ ~P.stopped
    /\ InRelRange(Get(P.baseline), LastCall.value)
    /\ ~ZReject(F, LastCall.value)
    /\ Abs(LastCall.value - Get(P.last_valid)) > RocAbsMax * Unit
    /\ ~LastCall.ret

\* C10: a frame without mask, or without lines, makes no add call: the
\* filter is as before the frame, no measurement is returned or recorded
\* for it, and the frame is returned and written unmodified.
C10_NoMeasurementFrame ==
    (pp_ret # None
       /\ (~Get(pp_ret).res.mask \/ Get(pp_ret).res.lines = <<>>)) =>
        /\ ~last_add
        /\ stab = prev_stab
        /\ Get(pp_ret).mean_mm = None
        /\ Get(pp_ret).frame_out = "frame"
        /\ \A i \in 1..Len(frame_means) : frame_means[i][1] # n_done - 1
        /\ Len(pipe_frames) = n_done
        /\ pipe_frames[n_done] = "frame"

\* a frame with a mask but no lines came after a rejection, on a filter
\* that is counting rejections
C10_Witness ==
    /\ pp_ret # None /\ stab # None
    /\ Get(pp_ret).res.mask /\ Get(pp_ret).res.lines = <<>>
    /\ F.consec_bad > 0 /\ ~F.stopped
    /\ Len(F.dq) > 0

(***************************************************************************)
(* Properties of process_video                                             *)
(***************************************************************************)
\* source indices of the frames post-processed so far, in processing order
DoneSrc == [i \in 1..Len(done) |-> done[i].src]

\* the IntervalStat of interval k_interval has been stored
Finalized == pc \in {"for", "returned"} /\ k_interval > 0

\* an exception has left process_video
Raised == pc \in {"raised_init", "raised_open", "raised_start", "raised_flush"}

\* C11: once the filter of the interval has stopped no cap.read call is made
\* for that interval, and when the interval is finalized every frame that was
\* put in a batch has been post-processed and written to the encoder.
C11_StoppedEndsDecoding ==
    /\ \A i \in 1..Len(reads) : ~reads[i].stopped
    /\ (Finalized /\ StoppedBreak) =>
           /\ batch_frames = <<>>
           /\ DoneSrc = appended
           /\ pipe # None => Get(pipe).frames = appended

\* a finalized interval whose filter stopped with a sampled frame still
\* unread, and whose two batched frames went through to the encoder
C11_Witness ==
    /\ Finalized /\ StoppedBreak
    /\ pipe # None
    /\ Len(appended) = 2
    /\ Len(sampled) = 3
    /\ Len(reads) = 2
    /\ Get(pipe).frames = appended
    /\ DoneSrc = appended

StrictlyIncreasing(q) == \A i \in 1..(Len(q) - 1) : q[i] < q[i + 1]

IsPrefix(q, r) == Len(q) <= Len(r) /\ q = SubSeq(r, 1, Len(q))

\* the frames post-processed so far that made an add call
DoneWithAdd == SelectSeq(done, LAMBDA d : d.add # None)

\* C12: within one interval the add calls are made in the order the frames
\* were put in a batch, which is strictly increasing source frame index,
\* within a batch and from one batch to the next, and the frames are written
\* to the encoder in that same order.
C12_SubmissionOrder ==
    /\ StrictlyIncreasing(appended)
    /\ IsPrefix(DoneSrc, appended)
    /\ pc # "raised_start" =>
           calls = [i \in 1..Len(DoneWithAdd) |-> Get(DoneWithAdd[i].add)]
    /\ StrictlyIncreasing([i \in 1..Len(DoneWithAdd) |-> DoneWithAdd[i].src])
    /\ pipe # None =>
           /\ IsPrefix(Get(pipe).frames, DoneSrc)
           /\ StrictlyIncreasing(Get(pipe).frames)

\* three frames in batches of two: three add calls and three writes, the
\* third of each made by the flush at the end of the interval
C12_Witness ==
    /\ Finalized
    /\ self.batch_size = 2
    /\ pipe # None
    /\ Len(calls) = 3
    /\ Get(pipe).frames = <<0, 1, 2>>

\* the frame d had a mask, at least one line, and a measurement that the
\* filter of the interval, when there is one, accepted
Recorded(d) ==
    /\ d.res.mask
    /\ d.res.lines # <<>>
    /\ IF self.stability_filter_config = None THEN d.add = None
       ELSE d.add # None /\ Get(d.add).ret

\* C13: every pair (frame_index, measurement) recorded for aggregation
\* carries the source index of the frame the measurement was computed from,
\* also when frames are batched, and a pair is recorded exactly for the
\* frames that had a mask, at least one line and a measurement the filter
\* accepted.
C13_PairsAttributed ==
    self # None =>
        LET rec == SelectSeq(done, Recorded)
        IN  /\ \A i \in 1..Len(done) : done[i].idx = done[i].src
            /\ frame_means =
                 [i \in 1..Len(rec) |->
                     <<rec[i].src,
                       mm_mean_from_lines(rec[i].res.lines, PixelSizeMm)>>]

\* three frames in batches of two, the second rejected by the filter: the
\* pairs recorded are those of frames 0 and 2
C13_Witness ==
    /\ Finalized
    /\ self.batch_size = 2
    /\ Len(done) = 3
    /\ done[2].add # None /\ ~Get(done[2].add).ret
    /\ Len(frame_means) = 2
    /\ frame_means[1][1] = 0
    /\ frame_means[2][1] = 2

\* source indices of the frames waiting in the batch
PendingSrc == [i \in 1..Len(batch_frames) |-> batch_frames[i].src]

\* C14: between loop iterations the batch holds fewer than batch_size
\* frames; it is empty when the interval is finalized; every frame put in a
\* batch is post-processed at most once and written at most once at any
\* time, and exactly once by the time the interval is finalized, whatever
\* the filter said of its measurement.
C14_BatchFlushedWhenFull ==
    /\ pc = "while" =>
           /\ Len(batch_frames) < self.batch_size
           /\ Len(batch_indices) = Len(batch_frames)
           /\ DoneSrc \o PendingSrc = appended
    /\ Finalized =>
           /\ batch_frames = <<>>
           /\ batch_indices = <<>>
           /\ DoneSrc = appended
           /\ pipe # None => Get(pipe).frames = appended
    /\ StrictlyIncreasing(DoneSrc)
    /\ pipe # None => StrictlyIncreasing(Get(pipe).frames)

\* three frames in batches of two, one flush when the batch was full and
\* one at the end for the third frame; one measurement was not accepted
C14_Witness ==
    /\ Finalized
    /\ self.batch_size = 2
    /\ Len(appended) = 3
    /\ pipe # None
    /\ Get(pipe).frames = appended
    /\ Len(frame_means) < Len(calls)

\* C15: for every interval whose encoder subprocess was started, close has
\* been called exactly once when the processing of the interval is left,
\* whether it is left normally, after the filter stopped, or by an exception
\* raised by preprocessing, inference or write_frame.
C15_CloseOnEveryPath ==
    (pipe # None /\ (Finalized \/ Raised)) =>
        /\ closes = 1
        /\ ~Get(pipe).proc

\* the interval finalized last: how it ended, and its IntervalStat
E == Get(ended)
St == Get(stat_k)

C17_MeanMaxAndTime ==
    /\ (ended # None /\ E.frame_means # <<>>) =>
           LET fm == E.frame_means
               vals == [i \in 1..Len(fm) |-> fm[i][2]]
           IN  /\ St.mean_of_means_mm * Len(fm) = SumSeq(vals)
               /\ \A i \in 1..Len(fm) : vals[i] <= St.max_of_means_mm
               /\ \E i \in 1..Len(fm) :
                      /\ vals[i] = St.max_of_means_mm
                      /\ \A h \in 1..(i - 1) : vals[h] < vals[i]
                      /\ St.max_at_s * src_fps = fm[i][1] * Unit
    /\ LET ex == interval_stat(<<0, 1>>, <<0, 5, 10>>,
                               << <<0, Unit>>, <<5, 2 * Unit>>, <<10, 3 * Unit>> >>,
                               10)
       IN  /\ ex.mean_of_means_mm = 2 * Unit
           /\ ex.max_of_means_mm = 3 * Unit
           /\ ex.max_at_s = Unit

\* three accepted measurements, the first and the third both the maximum:
\* max_at_s is the time of the first, frame 0
C17_Witness ==
    /\ Finalized
    /\ Len(frame_means) = 3
    /\ frame_means[1][2] = frame_means[3][2]
    /\ frame_means[2][2] < frame_means[1][2]
    /\ St.max_at_s = 0
    /\ St.max_of_means_mm = frame_means[3][2]

\* the filter left by, and the returns of, the add calls of the values vs
\* made in order on the filter f
Prepend(ret, out) == [out EXCEPT !.rets = <<ret>> \o @]
RECURSIVE Replay(_, _)
ReplayRest(r, vs) == Prepend(r.ret, Replay(r.f, vs))
Replay(f, vs) ==
    IF vs = <<>> THEN [f |-> f, rets |-> <<>>]
    ELSE ReplayRest(add(f, Head(vs)), Tail(vs))

\* C18: the filter of every interval is created afresh: whatever intervals
\* came before, the accept/reject decisions of the interval and its stopped
\* outcome are those of a new filter fed the measurements of this interval
\* alone, in order.
C18_FreshFilterPerInterval ==
    (self # None /\ k_interval > 0) =>
        IF self.stability_filter_config = None THEN stab = None
        ELSE LET r == Replay(NewFilter(Get(self.stability_filter_config)),
                             CallValues)
             IN  /\ stab = Some(r.f)
                 /\ r.rets = [i \in 1..Len(calls) |-> calls[i].ret]

\* the filter of the first interval stopped; the filter of the second
\* interval has accepted a measurement and then rejected one
C18_Witness ==
    /\ k_interval = 2
    /\ pc = "while"
    /\ ended # None /\ E.stopped
    /\ Len(calls) = 2
    /\ calls[1].ret /\ ~calls[2].ret

\* C19: a failure to start the encoder subprocess of one interval aborts
\* that interval only: process_video is not left by the exception, the
\* intervals after it are processed and the IntervalStats are returned.
C19_StartFailureIsolated == pc # "raised_start"

\* C20: a failed cap.read is the last read of its interval; the frames
\* waiting in the batch are still post-processed and written, the encoder is
\* closed, an IntervalStat is made from the measurements accepted so far,
\* and the next interval is started.
C20_DecodeFailureEndsInterval ==
    /\ \A i \in 1..(Len(reads) - 1) : reads[i].ok
    /\ pc = "break" <=>
           /\ reads # <<>> /\ ~reads[Len(reads)].ok
           /\ ~Finalized /\ ~Raised
    /\ (ended # None /\ E.decode_failed) =>
           /\ stat_k # None
           /\ E.done = E.appended
           /\ self.save_video =>
                  /\ E.written = E.appended
                  /\ E.closes = 1
           /\ IF E.frame_means = <<>>
              THEN St.mean_of_means_mm = NoStat
              ELSE St.mean_of_means_mm * Len(E.frame_means)
                     = SumSeq([i \in 1..Len(E.frame_means) |->
                                  E.frame_means[i][2]])

\* the first interval lost its second frame while the first was waiting in
\* a batch of two: the frame was processed and written, its measurement is
\* in the IntervalStat, and the second interval is being read
C20_Witness ==
    /\ k_interval = 2
    /\ pc = "while"
    /\ reads # <<>>
    /\ self.batch_size = 2
    /\ ended # None
    /\ E.decode_failed
    /\ E.appended = 1
    /\ E.written = 1
    /\ E.closes = 1
    /\ Len(E.frame_means) = 1
    /\ St.mean_of_means_mm = E.frame_means[1][2]

\* C21: an interval whose end_s is smaller than its start_s is reported to
\* the caller as an error: it is never taken into the read loop, and no
\* IntervalStat is made for it.
C21_InvalidIntervalRejected ==
    (k_interval > 0 /\ interval[2] < interval[1]) =>
        /\ pc \notin {"while", "break"}
        /\ ~Finalized

\* C27: the frame_count of an IntervalStat is the number of frames of the
\* interval that were decoded, batched and post-processed, also when the
\* interval ended early on a stopped filter or a failed read.
C27_FrameCountProcessed ==
    ended # None => St.frame_count = E.done

\* C29: while the filter has not stopped and every read succeeds, the scan
\* never passes a sampled index without batching it, so that an interval
\* that ends that way has batched, post-processed and written every sampled
\* index exactly once, in order; and the scan makes at most
\* end_f - start_f + 1 reads.
C29_EverySampledIndexOnce ==
    /\ (pc = "while" /\ next_needed # None) => cur_f <= Get(next_needed)
    /\ pc \in {"while", "break", "for", "returned", "raised_flush"} =>
           Len(reads) <= EndF(interval) - StartF(interval) + 1
    /\ (Finalized /\ ~E.stopped /\ ~E.decode_failed) =>
           /\ appended = sampled
           /\ DoneSrc = sampled
           /\ pipe # None => Get(pipe).frames = sampled

\* an interval of frames 0..2 sampled at half the rate of the source less a
\* quarter: frames 0 and 2 are sampled, frame 1 is decoded and passed over,
\* and both sampled frames reached the encoder
C29_Witness ==
    /\ Finalized
    /\ ~E.stopped /\ ~E.decode_failed
    /\ sampled = <<0, 2>>
    /\ Len(reads) = 3
    /\ appended = <<0, 2>>
    /\ pipe # None
    /\ Get(pipe).frames = <<0, 2>>

(***************************************************************************)
(* Properties of the window of SlidingStabilityFilter                      *)
(***************************************************************************)
\* the values of the add calls cs that found the filter not stopped, the
\* first call being made on the filter f
RECURSIVE LiveValues(_, _)
LiveValues(f, cs) ==
    IF cs = <<>> \/ f.stopped THEN <<>>
    ELSE <<Head(cs).value>> \o LiveValues(add(f, Head(cs).value).f, Tail(cs))

IsAscending(q) == \A i \in 1..(Len(q) - 1) : q[i] <= q[i + 1]

\* number of positions of q that hold v
CountOf(q, v) == Cardinality({i \in 1..Len(q) : q[i] = v})

SameMultiset(p, q) ==
    /\ Len(p) = Len(q)
    /\ \A i \in 1..Len(p) : CountOf(p, p[i]) = CountOf(q, p[i])

\* the last m elements of q
LastOf(q, m) == SubSeq(q, Len(q) - m + 1, Len(q))

\* the window of the filter f after the live add calls of values live
WindowOf(f, live) ==
    /\ f.dq = LastOf(live, Min2(Len(live), Max2(3, f.cfg.win_size)))
    /\ IsAscending(f.sorted)
    /\ SameMultiset(f.sorted, f.dq)

\* C30: after every add call on a filter not stopped at entry, the sorted
\* list is the deque in ascending order (same multiset of values), and the
\* deque holds the most recent min(k, max(3, win_size)) values passed to
\* add, k being the number of such calls.
C30_SortedMatchesDeque ==
    stab # None =>
        WindowOf(Get(stab), LiveValues(NewFilter(Get(stab).cfg), calls))

\* a window of 3 that has just taken its fourth value: the first value left
\* the deque and the sorted list
C30_Witness ==
    /\ stab # None
    /\ last_add
    /\ ~Get(prev_stab).stopped
    /\ Len(calls) = 4
    /\ Get(stab).win = 3
    /\ Len(Get(stab).dq) = 3
    /\ calls[1].value > calls[2].value
    /\ calls[1].value > calls[4].value
    /\ calls[3].value > calls[1].value

(***************************************************************************)
(* _choose_sampled_indices on its own                                      *)
(***************************************************************************)
MaxFrameIndex == 6      \* start_f and end_f range over 0..MaxFrameIndex

\* frame rates: ratios below, at (21/20) and above 1.05, every ratio above
\* 1.05 with a power of two as its divisor, so that the floats of the code
\* hold start_f + i * ratio exactly
SamplerSrcRates == {-1, 0, 3, 5, 17, 21}
SamplerTargetRates == {-1, 0, 2, 4, 16, 20}

SamplerCalls ==
    { c \in [ start_f : 0..MaxFrameIndex, end_f : 0..MaxFrameIndex,
              src_fps : SamplerSrcRates, target_fps : SamplerTargetRates,
              rets : {<<>>} ] : c.start_f <= c.end_f }

InitSampler ==
    /\ FrameIdle
    /\ VideoIdle
    /\ PipeIdle
    /\ lines_call = <<>>
    /\ smoothing_call = <<>>
    /\ sampler_call \in SamplerCalls

\* one call of _choose_sampled_indices with the arguments of sampler_call
ChooseSampledIndices ==
    /\ sampler_call # <<>>
    /\ Len(sampler_call.rets) < 2
    /\ LET c == sampler_call
       IN  sampler_call' =
               [c EXCEPT !.rets = Append(@,
                   IF ratio_raises(c.src_fps, c.target_fps)
                   THEN [raised |-> TRUE, value |-> <<>>]
                   ELSE [raised |-> FALSE,
                         value |-> choose_sampled_indices(
                                       c.start_f, c.end_f,
                                       c.src_fps, c.target_fps)])]
    /\ UNCHANGED <<framevars, videovars, pipevars, lines_call, smoothing_call>>

NextSampler == ChooseSampledIndices

SpecSampler == InitSampler /\ [][NextSampler]_vars

\* the rates of the call c after the two substitutions of lines 150-153
TargetOf(c) == IF c.target_fps <= 0 THEN c.src_fps ELSE c.target_fps
SrcOf(c) == IF c.src_fps <= 0 THEN TargetOf(c) ELSE c.src_fps

\* the call c has a ratio, and it is above 1.05
RatioDefined(c) == TargetOf(c) # 0
AboveThreshold(c) ==
    /\ RatioDefined(c)
    /\ SrcOf(c) * 20 * (IF TargetOf(c) > 0 THEN 1 ELSE -1)
         > 21 * TargetOf(c) * (IF TargetOf(c) > 0 THEN 1 ELSE -1)

\* floor(a / b) for a >= 0, b > 0: the largest q with q * b <= a
FloorDiv(a, b) == CHOOSE q \in 0..a : q * b <= a /\ (q + 1) * b > a

\* C24: with start_f <= end_f and ratio = src_fps / target_fps > 1.05 the
\* sampler returns exactly max(1, floor((end_f - start_f + 1) / ratio))
\* indices, strictly increasing, all within [start_f, end_f], the first
\* being start_f; two calls with the same inputs return the same list.
C24_SampledAboveThreshold ==
    (sampler_call # <<>> /\ AboveThreshold(sampler_call)) =>
        LET c == sampler_call
        IN  /\ \A j \in 1..Len(c.rets) :
                   LET r == c.rets[j].value
                   IN  /\ ~c.rets[j].raised
                       /\ Len(r) = Max2(1, FloorDiv((c.end_f - c.start_f + 1)
                                                      * TargetOf(c), SrcOf(c)))
                       /\ StrictlyIncreasing(r)
                       /\ \A i \in 1..Len(r) :
                              c.start_f <= r[i] /\ r[i] <= c.end_f
                       /\ r[1] = c.start_f
            /\ Len(c.rets) = 2 => c.rets[1] = c.rets[2]

\* frames 1..6 at 5 fps sampled at 2 fps, called twice: ratio 2.5 gives
\* floor(6 / 2.5) = 2 indices, 1 and round(3.5) = 4
C24_Witness ==
    /\ sampler_call # <<>>
    /\ sampler_call.start_f = 1 /\ sampler_call.end_f = 6
    /\ sampler_call.src_fps = 5 /\ sampler_call.target_fps = 2
    /\ Len(sampler_call.rets) = 2
    /\ sampler_call.rets[2].value = <<1, 4>>

\* C25: when the ratio, taken after a non-positive target_fps was replaced
\* by src_fps and a non-positive src_fps by target_fps, is at most 1.05, the
\* sampler returns every index of [start_f, end_f] in order, that is
\* end_f - start_f + 1 indices.
C25_EveryFrameAtOrBelowThreshold ==
    (sampler_call # <<>> /\ RatioDefined(sampler_call)
       /\ ~AboveThreshold(sampler_call)) =>
        LET c == sampler_call
        IN  \A j \in 1..Len(c.rets) :
                /\ ~c.rets[j].raised
                /\ Len(c.rets[j].value) = c.end_f - c.start_f + 1
                /\ \A i \in 1..Len(c.rets[j].value) :
                       c.rets[j].value[i] = c.start_f + i - 1

\* frames 2..5 at 21 fps sampled at 20 fps: the ratio is 1.05 itself and
\* all four frames are returned
C25_Witness ==
    /\ sampler_call # <<>>
    /\ sampler_call.start_f = 2 /\ sampler_call.end_f = 5
    /\ sampler_call.src_fps = 21 /\ sampler_call.target_fps = 20
    /\ sampler_call.rets # <<>>
    /\ sampler_call.rets[1].value = <<2, 3, 4, 5>>

(***************************************************************************)
(* LineExtractor (src/app/utils/line_extractor.py, and the earlier         *)
(* src/app/line_extractor.py for _filter_with_smoothing)                   *)
(***************************************************************************)
MaxLines == 4           \* lines handed to one _filter_with_smoothing call
MaxColumns == 1         \* sampled columns of one extraction

SmoothThresholdNum == 1 \* LINE_EXTRACTION_CONFIG["threshold"] = 0.1 = 1/10
SmoothThresholdDen == 10
SmoothWindowSize == 5   \* LINE_EXTRACTION_CONFIG["window_size"]
ImageHeight == 3        \* H, rows of the image and of the mask

\* the elements of q at the positions in K, in order
SubseqAt(q, K) ==
    [j \in 1..Cardinality(K) |->
        q[CHOOSE i \in K : Cardinality({m \in K : m < i}) = j - 1]]

\* sum of q[a..b]
WindowSum(q, a, b) == SumSeq(SubSeq(q, a, b))

\* rel_diff <= threshold, for the height h and the local mean total / count:
\* abs(h - mean) / max(mean, 1e-6) <= threshold; the heights are integers,
\* so a mean that is not above 1e-6 is at most 0 and only a deviation of 0
\* passes
keep_line(h, total, count) ==
    IF total > 0
    THEN Abs(h * count - total) * SmoothThresholdDen
           <= SmoothThresholdNum * total
    ELSE h * count = total

\* smoothed[i] * w of utils/line_extractor.py, i counted from 1: the moving
\* averages of the N - w + 1 full windows, the first one repeated over the
\* first w // 2 positions and the last one over the last w - w // 2 - 1
smoothed_total(heights, w, i) ==
    LET N == Len(heights)
        pad_left == w \div 2
        pad_right == w - pad_left - 1
        first == IF i <= pad_left THEN 1
                 ELSE IF i <= N - pad_right THEN i - pad_left
                 ELSE N - w + 1
    IN  WindowSum(heights, first, first + w - 1)

\* LineExtractor._filter_with_smoothing of src/app/utils/line_extractor.py
filter_with_smoothing(lines, window_size) ==
    IF lines = <<>> \/ window_size <= 1 THEN lines
    ELSE IF Len(lines) <= window_size THEN lines
    ELSE LET heights == [i \in 1..Len(lines) |-> lines[i][3] - lines[i][2]]
         IN  SubseqAt(lines,
                      {i \in 1..Len(lines) :
                          keep_line(heights[i],
                                    smoothed_total(heights, window_size, i),
                                    window_size)})

\* the window of position i (from 1) in src/app/line_extractor.py:
\* heights[max(0, i - half) : min(len, i + half + 1)]
truncated_first(i, w) == Max2(1, i - w \div 2)
truncated_last(n, i, w) == Min2(n, i + w \div 2)

\* relative_diff <= threshold of src/app/line_extractor.py, which divides
\* by the mean itself: a mean of 0 gives nan or inf and the line is
\* dropped, a negative mean gives a negative relative_diff and it is kept
keep_line_legacy(h, total, count) ==
    IF total > 0
    THEN Abs(h * count - total) * SmoothThresholdDen
           <= SmoothThresholdNum * total
    ELSE total < 0

\* LineExtractor._filter_with_smoothing of src/app/line_extractor.py
filter_with_smoothing_legacy(lines, window_size) ==
    IF Len(lines) <= window_size THEN lines
    ELSE LET heights == [i \in 1..Len(lines) |-> lines[i][3] - lines[i][2]]
             n == Len(lines)
         IN  SubseqAt(lines,
                      {i \in 1..n :
                          keep_line_legacy(
                              heights[i],
                              WindowSum(heights,
                                        truncated_first(i, window_size),
                                        truncated_last(n, i, window_size)),
                              truncated_last(n, i, window_size)
                                - truncated_first(i, window_size) + 1)})

\* inputs of a _filter_with_smoothing call: lines at x = 0, 5, 10, ... with
\* top_y = 0 and a height out of SmoothHeights
SmoothHeights == {9, 10, 14}
SmoothWindows == {1, 2, 3}
SmoothLineLists ==
    UNION { [1..n -> {<<0, 0, h>> : h \in SmoothHeights}] : n \in 0..MaxLines }
AtColumns(lines) ==
    [i \in 1..Len(lines) |-> <<5 * (i - 1), lines[i][2], lines[i][3]>>]

InitSmoothing ==
    /\ FrameIdle
    /\ VideoIdle
    /\ PipeIdle
    /\ sampler_call = <<>>
    /\ lines_call = <<>>
    /\ smoothing_call \in
           { [module |-> m, lines |-> AtColumns(l), window_size |-> w,
              ret |-> None] :
                 m \in {"utils.line_extractor", "line_extractor"},
                 l \in SmoothLineLists, w \in SmoothWindows }

\* one call of LineExtractor._filter_with_smoothing(lines, window_size,
\* threshold) of the module smoothing_call.module
FilterWithSmoothing ==
    /\ smoothing_call # <<>>
    /\ smoothing_call.ret = None
    /\ smoothing_call' =
           [smoothing_call EXCEPT !.ret =
               Some(IF smoothing_call.module = "utils.line_extractor"
                    THEN filter_with_smoothing(smoothing_call.lines,
                                               smoothing_call.window_size)
                    ELSE filter_with_smoothing_legacy(
                             smoothing_call.lines,
                             smoothing_call.window_size))]
    /\ UNCHANGED <<framevars, videovars, pipevars, sampler_call, lines_call>>

NextSmoothing == FilterWithSmoothing

SpecSmoothing == InitSmoothing /\ [][NextSmoothing]_vars

\* positions the window of a module reaches to the right of its centre:
\* w - w // 2 - 1 in utils/line_extractor.py (pad_right), w // 2 in
\* src/app/line_extractor.py (half_window)
reach_right(module, w) ==
    IF module = "utils.line_extractor" THEN w - w \div 2 - 1 ELSE w \div 2

\* the line at position i deviates by at most the threshold from the mean of
\* the heights that exist in the window centred on i, cut at the ends of the
\* list
WithinOfLocalMean(c, i) ==
    LET heights == [j \in 1..Len(c.lines) |-> c.lines[j][3] - c.lines[j][2]]
        a == Max2(1, i - c.window_size \div 2)
        b == Min2(Len(c.lines), i + reach_right(c.module, c.window_size))
        total == WindowSum(heights, a, b)
    IN  Abs(heights[i] * (b - a + 1) - total) * SmoothThresholdDen
          <= SmoothThresholdNum * total

\* C28: the smoothing filter compares every line, those within
\* window_size // 2 positions of an end included, with the mean of the
\* heights that exist around its own position (a truncated window at the
\* ends); it returns, in x order, the lines whose relative deviation from
\* that mean is at most the threshold, and returns its input when that has
\* at most window_size lines.
C28_TruncatedEdgeWindows ==
    (smoothing_call # <<>> /\ smoothing_call.ret # None) =>
        LET c == smoothing_call
        IN  Get(c.ret) =
                IF Len(c.lines) <= c.window_size THEN c.lines
                ELSE SubseqAt(c.lines,
                              {i \in 1..Len(c.lines) :
                                  WithinOfLocalMean(c, i)})

(***************************************************************************)
(* LineExtractor.extract_vertical_lines_from_mask                          *)
(***************************************************************************)
\* a sampled column x that has mask pixels: binm[:, x] as mask, gy[:, x] as
\* gy, both with ImageHeight rows counted from 1 here and from 0 in the code
Gradients == {0, 1}
SearchDistances == 0..3     \* gradient_search_top and gradient_search_bottom
ColumnInputs ==
    [ mask : [1..ImageHeight -> BOOLEAN], gy : [1..ImageHeight -> Gradients] ]
ColumnLists ==
    UNION { [1..n -> ColumnInputs] : n \in 1..MaxColumns }

\* np.clip
clip(y, lo, hi) == Max2(lo, Min2(y, hi))

\* best_y_around for one column: y0 and the result are rows counted from 0
best_y_around(y0, win, direction, gy) ==
    LET wn == Max2(1, win)
        ys == [k \in 1..wn |->
                  clip(IF direction > 0 THEN y0 + (k - 1) ELSE y0 - (k - 1),
                       0, ImageHeight - 1)]
        vals == [k \in 1..wn |-> gy[ys[k] + 1]]
    IN  ys[argmax(vals)]

\* top0 = np.argmax(cols, axis=0) and bot0 = H - 1 - np.argmax(flipud(cols))
top0(mask) ==
    (CHOOSE i \in 1..ImageHeight :
         mask[i] /\ \A j \in 1..(i - 1) : ~mask[j]) - 1
bot0(mask) ==
    (CHOOSE i \in 1..ImageHeight :
         mask[i] /\ \A j \in (i + 1)..ImageHeight : ~mask[j]) - 1

has_mask(col) == \E i \in 1..ImageHeight : col.mask[i]

\* lines 85-118: the (x, top, bot) of the sampled columns that have mask
\* pixels, x being sample_interval * position
lines_arr(cols, gradient_search_top, gradient_search_bottom) ==
    LET at == [i \in 1..Len(cols) |->
                  [x |-> 5 * (i - 1), mask |-> cols[i].mask, gy |-> cols[i].gy]]
        kept == SelectSeq(at, has_mask)
    IN  [i \in 1..Len(kept) |->
            << kept[i].x,
               best_y_around(top0(kept[i].mask), gradient_search_top, 1,
                             kept[i].gy),
               best_y_around(bot0(kept[i].mask), gradient_search_bottom, -1,
                             kept[i].gy) >>]

\* LineExtractor.extract_vertical_lines_from_mask, from the sampled columns
\* on, with apply_smoothing and the smoothing parameters at their defaults
extract_vertical_lines_from_mask(cols, search_top, search_bottom) ==
    filter_with_smoothing(lines_arr(cols, search_top, search_bottom),
                          SmoothWindowSize)

InitLines ==
    /\ FrameIdle
    /\ VideoIdle
    /\ PipeIdle
    /\ sampler_call = <<>>
    /\ smoothing_call = <<>>
    /\ lines_call \in
           [ cols : ColumnLists,
             gradient_search_top : SearchDistances,
             gradient_search_bottom : SearchDistances,
             ret : {None} ]

\* one call of extract_vertical_lines_from_mask
ExtractVerticalLines ==
    /\ lines_call # <<>>
    /\ lines_call.ret = None
    /\ lines_call' =
           [lines_call EXCEPT !.ret =
               Some(extract_vertical_lines_from_mask(
                        lines_call.cols, lines_call.gradient_search_top,
                        lines_call.gradient_search_bottom))]
    /\ UNCHANGED <<framevars, videovars, pipevars, sampler_call,
                   smoothing_call>>

NextLines == ExtractVerticalLines

SpecLines == InitLines /\ [][NextLines]_vars

\* C26: every (x, top_y, bottom_y) that the line extractor returns has
\* bottom_y >= top_y, whatever the mask, the gradient of the image and the
\* two search distances, mask columns shorter than the search distances
\* included.
C26_BottomNotAboveTop ==
    (lines_call # <<>> /\ lines_call.ret # None) =>
        \A i \in 1..Len(Get(lines_call.ret)) :
            Get(lines_call.ret)[i][3] >= Get(lines_call.ret)[i][2]

(***************************************************************************)
(* FFmpegPipe and the ffmpeg subprocess on the other end of its stdin      *)
(***************************************************************************)
PipeCapacity == 2       \* bytes the pipe between the two processes holds
MaxWrites == 3          \* write_frame_rgb_array calls on one FFmpegPipe

PipeW == 1              \* width given to FFmpegPipe
PipeH == 1              \* height given to FFmpegPipe

\* arrays handed to write_frame_rgb_array: dtype and shape
FrameArrays ==
    [ dtype : {"uint8", "float32"},
      shape : { <<PipeH, PipeW, 3>>, <<PipeH, PipeW>>, <<PipeH, PipeW, 4>>,
                <<PipeH + 1, PipeW, 3>>, <<PipeH, PipeW + 1, 3>> } ]

RECURSIVE Product(_)
Product(q) == IF q = <<>> THEN 1 ELSE Head(q) * Product(Tail(q))

\* np.ascontiguousarray(rgb).tobytes() of the array of the call-th call:
\* byte j of that array is named <<call, j>>
tobytes(rgb, call) == [j \in 1..Product(rgb.shape) |-> <<call, j>>]

\* mutant: the size of the array is not compared with that of the pipe
write_checks_without_size(obj, rgb) ==
    IF ~obj.proc THEN "RuntimeError"
    ELSE IF rgb.dtype # "uint8" THEN "TypeError"
    ELSE IF Len(rgb.shape) # 3 \/ rgb.shape[3] # 3 THEN "ValueError"
    ELSE "ok"

\* lines 148-156 of write_frame_rgb_array: the exception raised, or "ok"
write_checks(obj, rgb) ==
    IF ~obj.proc THEN "RuntimeError"
    ELSE IF rgb.dtype # "uint8" THEN "TypeError"
    ELSE IF Len(rgb.shape) # 3 \/ rgb.shape[3] # 3 THEN "ValueError"
    ELSE IF rgb.shape[1] # obj.H \/ rgb.shape[2] # obj.W THEN "ValueError"
    ELSE "ok"

\* mutant: what does not fit in the pipe is dropped
pipe_write_dropping(buf, data) ==
    LET n == Min2(Len(data), PipeCapacity - Len(buf))
    IN  [buf |-> buf \o SubSeq(data, 1, n), rest |-> <<>>]

\* write on the blocking pipe: the bytes that fit go in, the writer waits
\* with the rest
pipe_write(buf, data) ==
    LET n == Min2(Len(data), PipeCapacity - Len(buf))
    IN  [buf |-> buf \o SubSeq(data, 1, n),
         rest |-> SubSeq(data, n + 1, Len(data))]

\* FFmpegPipe(out_path, PipeW, PipeH) came back: the subprocess runs and
\* nothing was written
InitPipe ==
    /\ FrameIdle
    /\ VideoIdle
    /\ CallsIdle
    /\ ff = [proc |-> TRUE, W |-> PipeW, H |-> PipeH]
    /\ os_pipe = [buf |-> <<>>, eof |-> FALSE]
    /\ encoder = [got |-> <<>>, exited |-> FALSE]
    /\ writer = [pc |-> "idle", rest |-> <<>>, call |-> 0]
    /\ pipe_hist = [n_calls |-> 0, returned |-> <<>>, closes |-> 0,
                    last |-> None]

\* the bytes that left the writer so far, in the order the encoder reads
Sent == encoder.got \o os_pipe.buf

\* write_frame_rgb_array(rgb) is called: an exception of the checks, or the
\* start of self.proc.stdin.write
WriteFrame(rgb) ==
    /\ writer.pc = "idle"
    /\ pipe_hist.n_calls < MaxWrites
    /\ LET call == pipe_hist.n_calls + 1
           outcome == write_checks(ff, rgb)
           w == pipe_write(os_pipe.buf, tobytes(rgb, call))
           rec == [call |-> call, rgb |-> rgb, outcome |-> outcome,
                   running |-> ff.proc, before |-> Sent]
       IN  IF outcome # "ok"
           THEN /\ pipe_hist' = [pipe_hist EXCEPT !.n_calls = call,
                                                  !.last = Some(rec)]
                /\ UNCHANGED <<os_pipe, writer>>
           ELSE /\ os_pipe' = [os_pipe EXCEPT !.buf = w.buf]
                /\ writer' = IF w.rest = <<>>
                             THEN [pc |-> "idle", rest |-> <<>>, call |-> call]
                             ELSE [pc |-> "write", rest |-> w.rest,
                                   call |-> call]
                /\ pipe_hist' =
                       [pipe_hist EXCEPT
                          !.n_calls = call,
                          !.last = Some(rec),
                          !.returned = IF w.rest = <<>> THEN Append(@, call)
                                       ELSE @]
    /\ UNCHANGED <<ff, encoder, framevars, videovars, callvars>>

\* the writer waits in stdin.write until the pipe has room; the call returns
\* when its last byte is in the pipe
WriterResume ==
    /\ writer.pc = "write"
    /\ Len(os_pipe.buf) < PipeCapacity
    /\ LET w == pipe_write(os_pipe.buf, writer.rest)
       IN  /\ os_pipe' = [os_pipe EXCEPT !.buf = w.buf]
           /\ writer' = IF w.rest = <<>>
                        THEN [writer EXCEPT !.pc = "idle", !.rest = <<>>]
                        ELSE [writer EXCEPT !.rest = w.rest]
           /\ pipe_hist' =
                  [pipe_hist EXCEPT
                     !.returned = IF w.rest = <<>> THEN Append(@, writer.call)
                                  ELSE @]
    /\ UNCHANGED <<ff, encoder, framevars, videovars, callvars>>

\* ffmpeg reads some of the bytes waiting on its stdin
EncoderRead ==
    /\ ~encoder.exited
    /\ os_pipe.buf # <<>>
    /\ \E n \in 1..Len(os_pipe.buf) :
           /\ encoder' = [encoder EXCEPT
                            !.got = @ \o SubSeq(os_pipe.buf, 1, n)]
           /\ os_pipe' = [os_pipe EXCEPT
                            !.buf = SubSeq(@, n + 1, Len(@))]
    /\ UNCHANGED <<ff, writer, pipe_hist, framevars, videovars, callvars>>

\* ffmpeg has read everything up to the end of its input and exits
EncoderExit ==
    /\ ~encoder.exited
    /\ os_pipe.eof
    /\ os_pipe.buf = <<>>
    /\ encoder' = [encoder EXCEPT !.exited = TRUE]
    /\ UNCHANGED <<ff, os_pipe, writer, pipe_hist, framevars, videovars,
                   callvars>>

\* close(): nothing when self.proc is None, else stdin is closed and the
\* caller waits for the subprocess
Close ==
    /\ writer.pc = "idle"
    /\ pipe_hist.closes < 2
    /\ pipe_hist' = [pipe_hist EXCEPT !.closes = @ + 1]
    /\ IF ff.proc
       THEN /\ os_pipe' = [os_pipe EXCEPT !.eof = TRUE]
            /\ writer' = [writer EXCEPT !.pc = "wait"]
       ELSE UNCHANGED <<os_pipe, writer>>
    /\ UNCHANGED <<ff, encoder, framevars, videovars, callvars>>

\* proc.wait() returns; close sets self.proc = None and returns
CloseReturns ==
    /\ writer.pc = "wait"
    /\ encoder.exited
    /\ ff' = [ff EXCEPT !.proc = FALSE]
    /\ writer' = [writer EXCEPT !.pc = "idle"]
    /\ UNCHANGED <<os_pipe, encoder, pipe_hist, framevars, videovars,
                   callvars>>

NextPipe ==
    \/ \E rgb \in FrameArrays : WriteFrame(rgb)
    \/ WriterResume
    \/ EncoderRead
    \/ EncoderExit
    \/ Close
    \/ CloseReturns

SpecPipe == InitPipe /\ [][NextPipe]_vars

\* the last write_frame_rgb_array call
LastWrite == Get(pipe_hist.last)

\* the array has three dimensions and its height or width is not the pipe's
SizeDiffers(rgb) ==
    /\ Len(rgb.shape) = 3
    /\ rgb.shape[1] # PipeH \/ rgb.shape[2] # PipeW

\* C22: write_frame_rgb_array raises when the height or the width of the
\* frame differs from the size of the pipe; and a call that raises, for the
\* size, the dtype, the number of channels or a process that is not
\* running, writes no byte to the pipe of the subprocess.
C22_MismatchWritesNothing ==
    (ff # <<>> /\ pipe_hist.last # None) =>
        /\ SizeDiffers(LastWrite.rgb) => LastWrite.outcome # "ok"
        /\ LastWrite.outcome = "ok" <=>
               /\ LastWrite.running
               /\ LastWrite.rgb.dtype = "uint8"
               /\ LastWrite.rgb.shape = <<PipeH, PipeW, 3>>
        /\ LastWrite.outcome # "ok" =>
               /\ Sent = LastWrite.before
               /\ writer.pc # "write"
               /\ writer.rest = <<>>

\* after a frame went through to the encoder, a frame one row too high is
\* refused with ValueError
C22_Witness ==
    /\ ff # <<>>
    /\ pipe_hist.last # None
    /\ LastWrite.call = 2
    /\ LastWrite.rgb = [dtype |-> "uint8", shape |-> <<PipeH + 1, PipeW, 3>>]
    /\ LastWrite.outcome = "ValueError"
    /\ pipe_hist.returned = <<1>>
    /\ Len(encoder.got) = PipeH * PipeW * 3

\* the bytes of the frames of the calls in ids, one frame after the other
RECURSIVE FrameStream(_)
FrameStream(ids) ==
    IF ids = <<>> THEN <<>>
    ELSE [j \in 1..(PipeH * PipeW * 3) |-> <<Head(ids), j>>]
           \o FrameStream(Tail(ids))

\* C23: writes to the pipe of the encoder block when it is full, nothing is
\* dropped or reordered: what the encoder has read and what waits in the
\* pipe and in the blocked write is the concatenation, in call order, of
\* the frames of the calls that returned and of the one in progress; and
\* the encoder, once its input has ended, has read exactly the frames of
\* the calls that returned.
C23_BlockingWritesKeepStream ==
    ff # <<>> =>
        /\ Len(os_pipe.buf) <= PipeCapacity
        /\ Sent \o writer.rest =
               FrameStream(pipe_hist.returned
                             \o (IF writer.pc = "write" THEN <<writer.call>>
                                 ELSE <<>>))
        /\ writer.pc # "write" => writer.rest = <<>>
        /\ encoder.exited =>
               /\ encoder.got = FrameStream(pipe_hist.returned)
               /\ Len(encoder.got)
                    = Len(pipe_hist.returned) * (PipeH * PipeW * 3)

\* three calls of which the second was refused: the writer had to wait for
\* the encoder in both other calls, and the encoder has exited with the two
\* frames that were written
C23_Witness ==
    /\ ff # <<>>
    /\ encoder.exited
    /\ ~ff.proc
    /\ pipe_hist.returned = <<1, 3>>
    /\ PipeCapacity < PipeH * PipeW * 3
    /\ encoder.got = FrameStream(<<1, 3>>)

====
